---- MODULE Spec2Model ----
(***************************************************************************)
(* Mutual k-nearest-neighbour graph construction (main.py, mknn.py,        *)
(* helper.py).  The orchestrator (main) splits the object ids into         *)
(* partitions, starts one knn process per partition, merges their          *)
(* dictionaries, starts one mutual_knn process per partition, concatenates *)
(* their edge lists and writes the result.                                 *)
(*                                                                         *)
(* The rows of the data table are points of a line with integer            *)
(* coordinates (rows that differ in one attribute), so that the Euclidean  *)
(* distance is the integer |x - y|; k >= 1.  A weight 1/(1+d) is kept as   *)
(* the fraction <<numerator, denominator>>.                                *)
(***************************************************************************)
EXTENDS Integers, Sequences, FiniteSets

\* ------------------------------------------------------------------ bounds
MaxN == 3
MaxCoord == 2
MaxK == 2
MaxThreads == 3
\* What a pipe takes before send blocks until the other end reads: in records
\* of a dictionary times k, in edges of an edge list.
PipeCapacity == 1

\* ------------------------------------------------------- inputs and state
VARIABLES
    obj_count,  \* number of rows of the data table            (main.py:111)
    data,       \* data[obj]: the coordinate of object obj     (main.py:109)
    kdtree,     \* kdtree[obj]: all ids by distance from obj   (main.py:115)
    k,          \* options.k                                   (main.py:68)
    threads,    \* options.threads                             (main.py:69)
    pc,         \* position of the orchestrator in main()
    part,       \* main.py:118
    i,          \* loop variable of the two xrange loops       (main.py:122,138)
    r,          \* index of the receiver the recv loop is at   (main.py:131,147)
    procs1,     \* the knn processes, in start order; state: "running", "sending"
                \* (blocked in send until main reads), "exited", "failed"
    pipes1,     \* their pipes: the messages sent and not yet received
    dic_knn,    \* the merged neighbour table                  (main.py:130)
    procs2,     \* the mutual_knn processes, in start order
    pipes2,     \* their pipes
    edgelist,   \* the edges whose lines make up the string edgelist (main.py:146)
    output      \* the output file: its text, and the format it was written in

vars == <<obj_count, data, kdtree, k, threads, pc, part, i, r, procs1, pipes1,
          dic_knn, procs2, pipes2, edgelist, output>>

inputs == <<obj_count, data, kdtree, k, threads>>

\* ---------------------------------------------------------------- helpers
Abs(x) == IF x < 0 THEN 0 - x ELSE x

Min(a, b) == IF a < b THEN a ELSE b

\* Python 2 integer division a / b: the floor of the quotient, b # 0, a >= 0.
FloorDiv(a, b) ==
    IF b > 0 THEN a \div b
    ELSE 0 - ((a + (0 - b) - 1) \div (0 - b))

\* The distance a query reports for a neighbour that does not exist: above
\* every distance between two rows (no coordinate is above MaxCoord or 10).
Inf == MaxCoord + 11

Objects(n) == 0 .. (n - 1)

\* data[p] - data[q] in the Euclidean metric of a one-column table.
Dist(dat, p, q) == Abs(dat[p] - dat[q])

\* All the orders of the elements of S.
RECURSIVE Orders(_)
Orders(S) ==
    IF S = {} THEN {<<>>}
    ELSE UNION {{<<x>> \o q : q \in Orders(S \ {x})} : x \in S}

Position(seq, x) == CHOOSE n \in 1 .. Len(seq) : seq[n] = x

\* A query at p lists a before b: by distance, ties by the index's own
\* convention, the order `rank` of the ids (scipy's KDTree: by id).
Before(dat, rank, p, a, b) ==
    \/ Dist(dat, p, a) < Dist(dat, p, b)
    \/ Dist(dat, p, a) = Dist(dat, p, b) /\ Position(rank, a) < Position(rank, b)

\* KDTree(data): the neighbour order of every point under one tie convention.
KDTree(dat, n, rank) ==
    [p \in Objects(n) |->
        CHOOSE s \in Orders(Objects(n)) :
            \A a, b \in 1 .. n : a < b => Before(dat, rank, p, s[a], s[b])]

\* kdtree.query(data[obj], k = m): <<distances, ids>> of the m nearest points,
\* nearest first; a missing neighbour has distance inf and the id n.
Query(tree, dat, n, obj, m) ==
    << [x \in 1 .. m |-> IF x <= n THEN Dist(dat, obj, tree[obj][x]) ELSE Inf],
       [x \in 1 .. m |-> IF x <= n THEN tree[obj][x] ELSE n] >>

\* seq[:-1]
DropLast(seq) == IF seq = <<>> THEN <<>> ELSE SubSeq(seq, 1, Len(seq) - 1)

\* seq[1:]
DropFirst(seq) == IF seq = <<>> THEN <<>> ELSE Tail(seq)

\* The slice taken one id too long.
SliceOneMore(n, a, b) == [x \in 1 .. (Min(b + 1, n) - Min(a, n)) |-> a + x - 1]

\* obj_set[a:b] for obj_set = range(0, n), 0 <= a <= b.
Slice(n, a, b) == [x \in 1 .. (Min(b, n) - Min(a, n)) |-> a + x - 1]

\* i is a value of xrange(0, stop, step), given that it is 0 plus a multiple of step.
InXRange(x, stop, step) == IF step > 0 THEN x < stop ELSE x > stop

Range(seq) == {seq[x] : x \in DOMAIN seq}

\* ------------------------------------------------------------ mknn.knn
\* The record knn stores for obj.
KnnRecord(tree, dat, n, kk, obj) ==
    LET q == Query(tree, dat, n, obj, kk + 1)
    IN  <<DropFirst(q[1]), DropFirst(q[2])>>

\* The dictionary knn sends.
Knn(obj_subset, dat, tree, n, kk) ==
    [obj \in Range(obj_subset) |-> KnnRecord(tree, dat, n, kk, obj)]

\* dict.update
Update(dic, aux) ==
    [x \in (DOMAIN dic) \cup (DOMAIN aux) |-> IF x \in DOMAIN aux THEN aux[x] ELSE dic[x]]

\* ------------------------------------------------------ mknn.mutual_knn
\* An edge for every neighbour of the record, mutual or not.
IsMutualAlways(obj, nn, dic) == TRUE

\* The membership test made on the distances of the record instead of its ids.
IsMutualInDistances(obj, nn, dic) == obj \in Range(dic[nn][1])

\* obj in nn_knn[1]
IsMutual(obj, nn, dic) == obj \in Range(dic[nn][2])

\* The weight without the 1 + of the denominator.
WeightInverse(d1) == IF d1 = Inf THEN <<0, 1>> ELSE <<1, d1>>

\* 1 / (1 + d1) as <<numerator, denominator>>; 1 / inf is 0.0.
Weight(d1) == IF d1 = Inf THEN <<0, 1>> ELSE <<1, 1 + d1>>

\* dic_knn[obj] or dic_knn[nn] raises KeyError somewhere in the loops.
RaisesKeyError(obj_subset, dic) ==
    \E x \in DOMAIN obj_subset :
        LET obj == obj_subset[x]
        IN  \/ obj \notin DOMAIN dic
            \/ \E y \in DOMAIN dic[obj][2] :
                   /\ dic[obj][2][y] # obj
                   /\ dic[obj][2][y] \notin DOMAIN dic

\* The inner loop without `if obj == nn: continue`.
RECURSIVE EdgesOfWithSelf(_, _, _)
EdgesOfWithSelf(obj, dic, y) ==
    IF y > Len(dic[obj][2]) THEN <<>>
    ELSE LET nn == dic[obj][2][y]
             d1 == dic[obj][1][y]
         IN  (IF IsMutual(obj, nn, dic)
                 THEN << <<obj, nn, Weight(d1)>> >>
                 ELSE <<>>)
             \o EdgesOfWithSelf(obj, dic, y + 1)

\* The edges the inner loop appends for obj, from position y of its record on.
RECURSIVE EdgesOf(_, _, _)
EdgesOf(obj, dic, y) ==
    IF y > Len(dic[obj][2]) THEN <<>>
    ELSE LET nn == dic[obj][2][y]
             d1 == dic[obj][1][y]
         IN  (IF obj # nn /\ IsMutual(obj, nn, dic)
                 THEN << <<obj, nn, Weight(d1)>> >>
                 ELSE <<>>)
             \o EdgesOf(obj, dic, y + 1)

\* ew after the outer loop has run from position x of obj_subset on.
RECURSIVE MutualKnn(_, _, _)
MutualKnn(obj_subset, dic, x) ==
    IF x > Len(obj_subset) THEN <<>>
    ELSE EdgesOf(obj_subset[x], dic, 1) \o MutualKnn(obj_subset, dic, x + 1)

\* The edges of ew put in front of the list instead of behind it.
AggregateInFront(list, ew) == ew \o list

\* edgelist += '%s %s %s\n' % edge, for each edge of ew
Aggregate(list, ew) == list \o ew

\* ------------------------------------------------------------- text
\* A string is a sequence of characters.  A character is a decimal digit, one
\* of the marks the program writes, or the text of a float taken as one unit
\* (it has no blank and no newline in it).
Ch(c) == [c |-> c, n |-> 0, d |-> 0]

Digit(x) == [c |-> "digit", n |-> x, d |-> 0]

SP == Ch(" ")

NL == Ch("\n")

\* str(w) of the weight w
FloatText(w) == [c |-> "float", n |-> w[1], d |-> w[2]]

\* str(n) of an integer n >= 0
RECURSIVE Str(_)
Str(n) == IF n < 10 THEN <<Digit(n)>> ELSE Str(n \div 10) \o <<Digit(n % 10)>>

\* int(s) of a string of digits
RECURSIVE ParseInt(_)
ParseInt(s) ==
    IF Len(s) = 1 THEN s[1].n
    ELSE 10 * ParseInt(SubSeq(s, 1, Len(s) - 1)) + s[Len(s)].n

\* s.split(sep)
RECURSIVE Split(_, _)
Split(s, sep) ==
    IF \A x \in DOMAIN s : s[x] # sep THEN <<s>>
    ELSE LET p == CHOOSE x \in DOMAIN s : s[x] = sep /\ \A y \in 1 .. (x - 1) : s[y] # sep
         IN  <<SubSeq(s, 1, p - 1)>> \o Split(SubSeq(s, p + 1, Len(s)), sep)

\* '%s %s %s\n' % edge
FormatEdge(edge) ==
    Str(edge[1]) \o <<SP>> \o Str(edge[2]) \o <<SP, FloatText(edge[3]), NL>>

\* The string edgelist after the lines of the edges of list were added to it.
RECURSIVE EdgelistString(_)
EdgelistString(list) ==
    IF list = <<>> THEN <<>>
    ELSE FormatEdge(Head(list)) \o EdgelistString(Tail(list))

\* --------------------------------------------------------------- helper.py
\* write_ncol: f.write(edgelist)
WriteNcol(text) == text

\* The vertex lines of write_pajek for the objects from `from` on.
RECURSIVE PajekVertices(_, _)
PajekVertices(from, n) ==
    IF from >= n THEN <<>>
    ELSE Str(from + 1) \o <<SP, Ch("\"")>> \o Str(from) \o <<Ch("\""), NL>>
         \o PajekVertices(from + 1, n)

\* The edge line of write_pajek with the ids as they are in the edge list.
PajekEdgeLineUnshifted(u, v, w) == Str(ParseInt(u)) \o <<SP>> \o Str(ParseInt(v)) \o <<SP>> \o w \o <<NL>>

\* str(int(u) + 1) + ' ' + str(int(v) + 1) + ' ' + w + '\n'
PajekEdgeLine(u, v, w) == Str(ParseInt(u) + 1) \o <<SP>> \o Str(ParseInt(v) + 1) \o <<SP>> \o w \o <<NL>>

\* The loop of write_pajek over edgelist.split('\n'), from line x on: it ends
\* at the first line without a blank.
RECURSIVE PajekEdges(_, _)
PajekEdges(lines, x) ==
    IF x > Len(lines) THEN <<>>
    ELSE LET f == Split(lines[x], SP)
         IN  IF Len(f) = 1 THEN <<>>
             ELSE PajekEdgeLine(f[1], f[2], f[3]) \o PajekEdges(lines, x + 1)

\* write_pajek
WritePajek(n, text) ==
    <<Ch("*Vertices"), SP>> \o Str(n) \o <<NL>>
    \o PajekVertices(0, n)
    \o <<Ch("*Edges"), SP, NL>>
    \o PajekEdges(Split(text, NL), 1)

\* ------------------------------------------------------------------- Init
\* main before it has read the data.
Start ==
    /\ pc = "load"
    /\ part = 0
    /\ i = 0
    /\ r = 1
    /\ procs1 = <<>>
    /\ pipes1 = <<>>
    /\ dic_knn = <<>>
    /\ procs2 = <<>>
    /\ pipes2 = <<>>
    /\ edgelist = <<>>
    /\ output = [written |-> FALSE, format |-> "none", content |-> <<>>]

Init ==
    /\ obj_count \in 1 .. MaxN
    /\ data \in [Objects(obj_count) -> 0 .. MaxCoord]
    /\ kdtree \in {KDTree(data, obj_count, rank) : rank \in Orders(Objects(obj_count))}
    /\ k \in 1 .. MaxK
    /\ threads \in (0 - MaxThreads) .. MaxThreads
    /\ Start

\* The five points of a line at 0, 1, 2, 3 and 10, with k = 2 and 1 to 5 threads.
ExampleData == [obj \in 0 .. 4 |-> <<0, 1, 2, 3, 10>>[obj + 1]]

InitExample ==
    /\ obj_count = 5
    /\ data = ExampleData
    /\ kdtree \in {KDTree(data, obj_count, rank) : rank \in Orders(Objects(obj_count))}
    /\ k = 2
    /\ threads \in 1 .. 5
    /\ Start

\* ------------------------------------------------------------ orchestrator
\* data = np.loadtxt(...); attr_count = data.shape[1]; kdtree = spatial.KDTree(data).
\* loadtxt returns a table of one row as a vector, which has no shape[1].
LoadData ==
    /\ pc = "load"
    /\ pc' = IF obj_count < 2 THEN "crashed" ELSE "start"      \* IndexError
    /\ UNCHANGED <<inputs, part, i, r, procs1, pipes1, dic_knn, procs2, pipes2,
                   edgelist, output>>

\* part = obj_count / options.threads
ComputePart ==
    /\ pc = "start"
    /\ IF threads = 0
          THEN pc' = "crashed" /\ part' = part          \* ZeroDivisionError
          ELSE pc' = "spawn1" /\ part' = FloorDiv(obj_count, threads)
    /\ i' = 0
    /\ UNCHANGED <<inputs, r, procs1, pipes1, dic_knn, procs2, pipes2, edgelist, output>>

\* One round of `for i in xrange(0, obj_count, part)` starting a knn process.
SpawnKnn ==
    /\ pc = "spawn1"
    /\ IF part = 0
          THEN /\ pc' = "crashed"                       \* xrange: ValueError
               /\ UNCHANGED <<i, r, procs1, pipes1>>
          ELSE IF InXRange(i, obj_count, part)
          THEN /\ procs1' = Append(procs1,
                       [obj_subset |-> Slice(obj_count, i, i + part), state |-> "running"])
               /\ pipes1' = Append(pipes1, <<>>)
               /\ i' = i + part
               /\ UNCHANGED <<pc, r>>
          ELSE /\ pc' = "recv1"
               /\ r' = 1
               /\ UNCHANGED <<i, procs1, pipes1>>
    /\ UNCHANGED <<inputs, part, dic_knn, procs2, pipes2, edgelist, output>>

\* sender.send(message) returns without waiting for the reader.
Fits(size) == size <= PipeCapacity

\* main reads the pipe only after the process at its other end has ended.
RecvReadyAfterJoin(procs, pipes, idx) == pipes[idx] # <<>> /\ procs[idx].state = "exited"

\* receiver.recv() has a message to return.
RecvReady(procs, pipes, idx) == pipes[idx] # <<>>

\* The process whose message main has read: a send that was blocked returns and
\* the process ends.
Received(procs, idx) == [procs EXCEPT ![idx].state = "exited"]

\* The loop left one receiver early.
RecvLoopDoneEarly(idx, receivers) == idx >= Len(receivers)

\* The loop at receiver r has every receiver behind it.
RecvLoopDone(idx, receivers) == idx > Len(receivers)

\* One round of `for receiver in receivers`: recv blocks until the message is there.
RecvKnn ==
    /\ pc = "recv1"
    /\ IF RecvLoopDone(r, pipes1)
          THEN /\ pc' = "spawn2"
               /\ i' = 0
               /\ UNCHANGED <<r, procs1, pipes1, dic_knn>>
          ELSE /\ RecvReady(procs1, pipes1, r)
               /\ dic_knn' = Update(dic_knn, Head(pipes1[r]))
               /\ pipes1' = [pipes1 EXCEPT ![r] = Tail(@)]
               /\ procs1' = Received(procs1, r)
               /\ r' = r + 1
               /\ UNCHANGED <<pc, i>>
    /\ UNCHANGED <<inputs, part, procs2, pipes2, edgelist, output>>

\* Process.start() first forgets the children that have ended (_cleanup), and
\* with a forgotten child goes the parent's copy of the sending end of its pipe.
\* reaped: how many processes had been started when that happened, 0 if it has not.
Cleanup(procs) ==
    [w \in DOMAIN procs |->
        IF procs[w].state = "failed" /\ procs[w].reaped = 0
           THEN [procs[w] EXCEPT !.reaped = Len(procs)]
           ELSE procs[w]]

\* receiver.recv() raises EOFError: nothing to read and no copy of the sending
\* end left open.  The parent's copy is closed once the process is reaped; the
\* processes forked between the pipe's creation and then hold one while they live.
RecvRaisesEOF(procs, idx) ==
    /\ procs[idx].state = "failed"
    /\ procs[idx].reaped > 0
    /\ \A v \in (idx + 1) .. procs[idx].reaped : procs[v].state \notin {"running", "sending"}

\* One round of the second xrange loop, starting a mutual_knn process with the
\* table as it is now.
SpawnMutual ==
    /\ pc = "spawn2"
    /\ IF InXRange(i, obj_count, part)
          THEN /\ procs2' = Append(Cleanup(procs2),
                       [obj_subset |-> Slice(obj_count, i, i + part),
                        dic_knn |-> dic_knn, state |-> "running", reaped |-> 0])
               /\ pipes2' = Append(pipes2, <<>>)
               /\ i' = i + part
               /\ UNCHANGED <<pc, r>>
          ELSE /\ pc' = "recv2"
               /\ r' = 1
               /\ UNCHANGED <<i, procs2, pipes2>>
    /\ UNCHANGED <<inputs, part, procs1, pipes1, dic_knn, edgelist, output>>

\* One round of the second receive loop: recv blocks until the message is
\* there, or raises EOFError when none can come any more.
RecvMutual ==
    /\ pc = "recv2"
    /\ IF RecvLoopDone(r, pipes2)
          THEN /\ pc' = "write"
               /\ UNCHANGED <<r, procs2, pipes2, edgelist>>
          ELSE IF RecvReady(procs2, pipes2, r)
          THEN /\ edgelist' = Aggregate(edgelist, Head(pipes2[r]))
               /\ pipes2' = [pipes2 EXCEPT ![r] = Tail(@)]
               /\ procs2' = Received(procs2, r)
               /\ r' = r + 1
               /\ UNCHANGED pc
          ELSE /\ RecvRaisesEOF(procs2, r)
               /\ pc' = "crashed"                       \* EOFError
               /\ UNCHANGED <<r, procs2, pipes2, edgelist>>
    /\ UNCHANGED <<inputs, part, i, procs1, pipes1, dic_knn, output>>

\* write_ncol(options.output, edgelist) or write_pajek(options.output, obj_count,
\* edgelist), by options.format (which nothing reads before this point).
WriteOutput ==
    /\ pc = "write"
    /\ \E format \in {"ncol", "pajek"} :
          output' = [written |-> TRUE, format |-> format,
                     content |-> IF format = "ncol"
                                    THEN WriteNcol(EdgelistString(edgelist))
                                    ELSE WritePajek(obj_count, EdgelistString(edgelist))]
    /\ pc' = "done"
    /\ UNCHANGED <<inputs, part, i, r, procs1, pipes1, dic_knn, procs2, pipes2, edgelist>>

\* ----------------------------------------------------------------- workers
\* A knn process runs to its send, and through it if the pipe takes the message.
KnnRun(w) ==
    /\ procs1[w].state = "running"
    /\ pipes1' = [pipes1 EXCEPT
                    ![w] = Append(@, Knn(procs1[w].obj_subset, data, kdtree, obj_count, k))]
    /\ procs1' = [procs1 EXCEPT
                    ![w].state = IF Fits(Len(procs1[w].obj_subset) * k)
                                    THEN "exited" ELSE "sending"]
    /\ UNCHANGED <<inputs, pc, part, i, r, dic_knn, procs2, pipes2, edgelist, output>>

\* A mutual_knn process runs to its send, or dies of a KeyError before it.
MutualKnnRun(w) ==
    /\ procs2[w].state = "running"
    /\ IF RaisesKeyError(procs2[w].obj_subset, procs2[w].dic_knn)
          THEN /\ procs2' = [procs2 EXCEPT ![w].state = "failed"]
               /\ UNCHANGED pipes2
          ELSE LET ew == MutualKnn(procs2[w].obj_subset, procs2[w].dic_knn, 1)
               IN  /\ pipes2' = [pipes2 EXCEPT ![w] = Append(@, ew)]
                   /\ procs2' = [procs2 EXCEPT
                          ![w].state = IF Fits(Len(ew)) THEN "exited" ELSE "sending"]
    /\ UNCHANGED <<inputs, pc, part, i, r, procs1, pipes1, dic_knn, edgelist, output>>

Next ==
    \/ LoadData
    \/ ComputePart
    \/ SpawnKnn
    \/ RecvKnn
    \/ SpawnMutual
    \/ RecvMutual
    \/ WriteOutput
    \/ \E w \in DOMAIN procs1 : KnnRun(w)
    \/ \E w \in DOMAIN procs2 : MutualKnnRun(w)

Spec == Init /\ [][Next]_vars

\* The runs with k < N and 1 <= T <= N in which every process that can take a
\* step eventually takes one.
InitRegular == Init /\ k < obj_count /\ threads \in 1 .. obj_count

FairSpec == InitRegular /\ [][Next]_vars /\ WF_vars(Next)

\* The runs on the five points of the example.
SpecExample == InitExample /\ [][Next]_vars

\* ------------------------------------------------------------- properties
Ids(rec) == Range(rec[2])

HasEdge(list, u, v) == \E x \in DOMAIN list : list[x][1] = u /\ list[x][2] = v

\* The run is in the regime the contract covers: k < N and 1 <= T <= N.
Regular == k < obj_count /\ threads \in 1 .. obj_count

\* The subsets handed to the processes of a phase.
Subsets(procs) == [w \in DOMAIN procs |-> procs[w].obj_subset]

\* The whole neighbour table, as a function of the inputs alone.
FullTable == [obj \in Objects(obj_count) |-> KnnRecord(kdtree, data, obj_count, k, obj)]

\* The local edge lists of the first n partitions of size part, one after the other.
RECURSIVE EdgesInWorkerOrder(_)
EdgesInWorkerOrder(n) ==
    IF n = 0 THEN <<>>
    ELSE EdgesInWorkerOrder(n - 1)
         \o MutualKnn(Slice(obj_count, (n - 1) * part, n * part), FullTable, 1)

\* C1: once the run is done (k < N, 1 <= T <= N), for any two distinct objects u
\* and v the aggregated edge list has an edge from u to v exactly when v is in
\* u's record and u is in v's record of the merged table, wherever the two fall.
C1_MutualIff ==
    (pc = "done" /\ Regular) =>
        \A u, v \in Objects(obj_count) :
            u # v => (HasEdge(edgelist, u, v)
                        <=> (v \in Ids(dic_knn[u]) /\ u \in Ids(dic_knn[v])))

C1_Witness ==
    /\ pc = "done" /\ Regular
    /\ Len(procs2) >= 2
    /\ \E u, v \in Objects(obj_count) :
          /\ HasEdge(edgelist, u, v)
          /\ \E a, b \in DOMAIN procs2 :
                a # b /\ u \in Range(procs2[a].obj_subset) /\ v \in Range(procs2[b].obj_subset)
    /\ \E u, v \in Objects(obj_count) :
          u # v /\ v \in Ids(dic_knn[u]) /\ u \notin Ids(dic_knn[v]) /\ ~HasEdge(edgelist, u, v)

\* C2: whenever a mutual_knn process exists, every knn process has sent its
\* dictionary and the orchestrator has received it, and the table the process
\* was given is the merged table with an entry for every object id.
C2_MergeBarrier ==
    \A w \in DOMAIN procs2 :
        /\ \A v \in DOMAIN procs1 : procs1[v].state = "exited" /\ pipes1[v] = <<>>
        /\ DOMAIN procs2[w].dic_knn = Objects(obj_count)
        /\ procs2[w].dic_knn = dic_knn

C2_Witness ==
    /\ Len(procs1) >= 2
    /\ Len(procs2) >= 1
    /\ procs2[1].state = "running"
    /\ DOMAIN procs2[1].dic_knn = Objects(obj_count)

\* C3: while the results of the mutual_knn processes are received and after it,
\* the edge list is the local edge lists of the processes received so far, in
\* process order, each in its emission order: a function of the inputs alone,
\* whatever the order in which the processes sent.
C3_DeterministicAggregation ==
    pc \in {"recv2", "write", "done"} => edgelist = EdgesInWorkerOrder(r - 1)

C3_Witness ==
    /\ pc = "recv2" /\ r = 2 /\ Len(procs2) >= 3
    /\ edgelist # <<>>
    /\ procs2[2].state = "running"
    /\ pipes2[3] # <<>> /\ Head(pipes2[3]) # <<>>

\* C4: for T >= 1, once the orchestrator is past a dispatch loop the subsets it
\* handed out are consecutive, together list 0 .. N-1 in order with each id
\* once, and none is empty unless T > N.
Covers(procs) ==
    LET sub == Subsets(procs)
        all == [x \in 1 .. obj_count |-> x - 1]
        RECURSIVE Joined(_)
        Joined(n) == IF n = 0 THEN <<>> ELSE Joined(n - 1) \o sub[n]
    IN  /\ Joined(Len(sub)) = all
        /\ threads <= obj_count => \A w \in DOMAIN sub : sub[w] # <<>>

C4_PartitionCoverage ==
    threads >= 1 =>
        /\ pc \notin {"load", "start", "spawn1"} => Covers(procs1)
        /\ pc \in {"recv2", "write", "done"} => Covers(procs2)

\* C5: for 1 <= T <= N, once the knn processes are dispatched there are exactly
\* T subsets, each of floor(N/T) ids but the last, which has
\* N - (T-1)*floor(N/T).
C5_PartitionShape ==
    (threads \in 1 .. obj_count /\ pc \notin {"load", "start", "spawn1"}) =>
        /\ Len(procs1) = threads
        /\ \A w \in DOMAIN procs1 :
              Len(procs1[w].obj_subset) =
                  IF w < threads THEN obj_count \div threads
                  ELSE obj_count - (threads - 1) * (obj_count \div threads)

\* C6: for T >= 1, neither phase ever has started more than T processes, nor
\* has more than T of them running at once.
Running(procs) == {w \in DOMAIN procs : procs[w].state \in {"running", "sending"}}

C6_BoundedPool ==
    threads >= 1 =>
        /\ Len(procs1) <= threads /\ Cardinality(Running(procs1)) <= threads
        /\ Len(procs2) <= threads /\ Cardinality(Running(procs2)) <= threads

\* C7: for k < N, every record of the table has exactly k distances and k ids,
\* none of the ids the object itself, the distances non-decreasing.
C7_RecordShape ==
    k < obj_count =>
        \A obj \in DOMAIN dic_knn :
            /\ Len(dic_knn[obj][1]) = k /\ Len(dic_knn[obj][2]) = k
            /\ obj \notin Ids(dic_knn[obj])
            /\ \A a, b \in 1 .. k : a < b => dic_knn[obj][1][a] <= dic_knn[obj][1][b]

\* C8: every edge (p, n, w) a process sent or the orchestrator aggregated has
\* w = 1/(1 + d) for the distance d >= 0 at n's position in p's own record, and
\* 0 < w <= 1.
WeightOk(dic, e) ==
    \E y \in DOMAIN dic[e[1]][2] :
        /\ dic[e[1]][2][y] = e[2]
        /\ dic[e[1]][1][y] >= 0
        /\ e[3] = <<1, 1 + dic[e[1]][1][y]>>
        /\ 0 < e[3][1] /\ e[3][1] <= e[3][2]

C8_Weight ==
    /\ \A x \in DOMAIN edgelist : WeightOk(dic_knn, edgelist[x])
    /\ \A w \in DOMAIN pipes2 : \A m \in DOMAIN pipes2[w] :
          \A x \in DOMAIN pipes2[w][m] : WeightOk(dic_knn, pipes2[w][m][x])

C8_Witness ==
    /\ pc = "done"
    /\ \E x \in DOMAIN edgelist : edgelist[x][3] = <<1, 2>>
    /\ \E x \in DOMAIN edgelist : edgelist[x][3] = <<1, 3>>

\* C9: when k >= N no process is ever started, no record has an id outside
\* 0 .. N-1, and no output is written.
C9_AbortWhenKTooLarge ==
    k >= obj_count =>
        /\ procs1 = <<>> /\ procs2 = <<>>
        /\ \A obj \in DOMAIN dic_knn : Ids(dic_knn[obj]) \subseteq Objects(obj_count)
        /\ ~output.written

\* C10: when T <= 0 no process is ever started, no output is written and the
\* run does not end normally.
C10_AbortWhenNoThreads ==
    threads <= 0 =>
        /\ procs1 = <<>> /\ procs2 = <<>>
        /\ ~output.written
        /\ pc # "done"

\* C11: once a process has died without sending, the run either has been aborted
\* or can still take a step (it is never stuck waiting for that process), and
\* no output is written.
Failed(procs) == {w \in DOMAIN procs : procs[w].state = "failed"}

C11_WorkerFailureAborts ==
    Failed(procs2) # {} =>
        /\ pc = "crashed" \/ ENABLED Next
        /\ ~output.written

\* C12: when T > N (a table main can load has N >= 2 rows), the run does not
\* stop in the partitioning: once the knn processes are dispatched there are
\* fewer than T of them, one per subset, no subset empty, and the run can go on.
C12_MoreThreadsThanObjects ==
    (threads > obj_count /\ obj_count >= 2) =>
        /\ pc # "crashed"
        /\ pc \notin {"load", "start", "spawn1"} =>
              /\ Len(procs1) >= 1 /\ Len(procs1) < threads
              /\ \A w \in DOMAIN procs1 : procs1[w].obj_subset # <<>>

\* C13: the written file, for the E edges of the edge list over N objects.
\* pajek: the header line, N vertex lines (id + 1, the id in quotes), the *Edges
\* line, then E edge lines in edge-list order with both ids one higher and the
\* weight text as it is, N + 2 + E lines in all.  ncol: E lines, the x-th with
\* the ids of the x-th edge as they are and its weight text.
RECURSIVE ShiftedEdgeLines(_, _)
ShiftedEdgeLines(list, shift) ==
    IF list = <<>> THEN <<>>
    ELSE Str(Head(list)[1] + shift) \o <<SP>> \o Str(Head(list)[2] + shift)
         \o <<SP, FloatText(Head(list)[3]), NL>>
         \o ShiftedEdgeLines(Tail(list), shift)

RECURSIVE QuotedVertexLines(_)
QuotedVertexLines(n) ==
    IF n = 0 THEN <<>>
    ELSE QuotedVertexLines(n - 1) \o Str(n) \o <<SP, Ch("\"")>> \o Str(n - 1) \o <<Ch("\""), NL>>

LineCount(text) == Cardinality({x \in DOMAIN text : text[x] = NL})

C13_OutputFormats ==
    output.written =>
        /\ output.format = "pajek" =>
              /\ output.content = <<Ch("*Vertices"), SP>> \o Str(obj_count) \o <<NL>>
                                     \o QuotedVertexLines(obj_count)
                                     \o <<Ch("*Edges"), SP, NL>>
                                     \o ShiftedEdgeLines(edgelist, 1)
              /\ LineCount(output.content) = obj_count + 2 + Len(edgelist)
        /\ output.format = "ncol" =>
              /\ LineCount(output.content) = Len(edgelist)
              /\ \A x \in DOMAIN edgelist :
                    LET f == Split(Split(output.content, NL)[x], SP)
                    IN  /\ Len(f) = 3
                        /\ ParseInt(f[1]) = edgelist[x][1]
                        /\ ParseInt(f[2]) = edgelist[x][2]
                        /\ f[3] = <<FloatText(edgelist[x][3])>>

C13_Witness ==
    /\ output.written /\ output.format = "pajek"
    /\ Len(edgelist) >= 2
    /\ \E x \in DOMAIN edgelist : edgelist[x][1] > edgelist[x][2]

\* C14 (under SpecExample): in the merged table the record of point 4 is the
\* neighbours 3 and 2 at the distances 7 and 8 and the record of point 0 has the
\* neighbours 1 and 2; the final edge list has an edge from 0 to 1 and one from
\* 1 to 2, and none between 3 and 4 in either direction.
C14_Example ==
    /\ 4 \in DOMAIN dic_knn => dic_knn[4] = << <<7, 8>>, <<3, 2>> >>
    /\ 0 \in DOMAIN dic_knn => Ids(dic_knn[0]) = {1, 2}
    /\ pc = "done" =>
          /\ HasEdge(edgelist, 0, 1) /\ HasEdge(edgelist, 1, 2)
          /\ ~HasEdge(edgelist, 3, 4) /\ ~HasEdge(edgelist, 4, 3)

C14_Witness ==
    /\ pc = "done" /\ output.written
    /\ obj_count = 5 /\ threads = 2 /\ Len(procs2) = 3
    /\ DOMAIN dic_knn = 0 .. 4
    /\ Len(edgelist) = 6

\* C15: the record stored for an object p is the k+1 results of its query
\* without the first one if the first one is p, and without the last (the
\* farthest) one if it is not.
C15_SelfExclusion ==
    \A obj \in DOMAIN dic_knn :
        LET q == Query(kdtree, data, obj_count, obj, k + 1)
        IN  dic_knn[obj] = IF q[2][1] = obj
                              THEN <<DropFirst(q[1]), DropFirst(q[2])>>
                              ELSE <<DropLast(q[1]), DropLast(q[2])>>

\* C16: the dictionary a knn process sends has exactly the ids of its own
\* subset as keys; the dictionary main is about to merge has no key the table
\* already has; an entry of the table, once written, never changes; and once a
\* mutual_knn process has been started the table does not change at all.
C16_WriteOnce ==
    /\ [](\A w \in DOMAIN pipes1 : \A m \in DOMAIN pipes1[w] :
             DOMAIN pipes1[w][m] = Range(procs1[w].obj_subset))
    /\ []((pc = "recv1" /\ r <= Len(pipes1) /\ pipes1[r] # <<>>)
             => (DOMAIN Head(pipes1[r])) \cap (DOMAIN dic_knn) = {})
    /\ [][\A x \in DOMAIN dic_knn : x \in DOMAIN dic_knn' /\ dic_knn'[x] = dic_knn[x]]_vars
    /\ [][procs2 # <<>> => dic_knn' = dic_knn]_vars

C16_Witness ==
    /\ pc = "done"
    /\ Len(procs1) >= 2 /\ Len(procs2) >= 2
    /\ DOMAIN dic_knn = Objects(obj_count)
    /\ \A w \in DOMAIN procs2 : procs2[w].dic_knn = dic_knn

\* C17 (under FairSpec): main cannot take a step only while it waits in one of
\* the two receive loops (or is done); as long as the run is not done some
\* process can take a step, whichever processes are blocked in send; and the
\* run reaches the state where the output has been written.
MainStep ==
    LoadData \/ ComputePart \/ SpawnKnn \/ RecvKnn \/ SpawnMutual \/ RecvMutual \/ WriteOutput

C17_Termination ==
    /\ [](~ENABLED MainStep => pc \in {"recv1", "recv2", "done"})
    /\ [](pc # "done" => ENABLED Next)
    /\ <>(pc = "done" /\ output.written)

C17_Witness ==
    /\ pc = "recv1" /\ r = 1
    /\ procs1[1].state = "running"
    /\ \E w \in DOMAIN procs1 : procs1[w].state = "sending"

\* C18: every edge a process sent or main aggregated joins two different
\* objects, both of them ids of 0 .. N-1, also when the record of an object
\* holds the object itself.
NoSelfLoop(e) == e[1] # e[2] /\ e[1] \in Objects(obj_count) /\ e[2] \in Objects(obj_count)

C18_NoSelfLoops ==
    /\ \A x \in DOMAIN edgelist : NoSelfLoop(edgelist[x])
    /\ \A w \in DOMAIN pipes2 : \A m \in DOMAIN pipes2[w] :
          \A x \in DOMAIN pipes2[w][m] : NoSelfLoop(pipes2[w][m][x])

C18_Witness ==
    /\ pc = "done"
    /\ DOMAIN dic_knn = Objects(obj_count)
    /\ \E obj \in Objects(obj_count) :
          /\ obj \in Ids(dic_knn[obj])
          /\ \E x \in DOMAIN edgelist : edgelist[x][1] = obj

\* C19: for k < N and any T, in the edge list as it is written: an edge from u
\* to v has an edge from v to u in the list too, no two entries of the list
\* have the same ordered pair of ends, and the two edges of a pair have the
\* same weight when u's recorded distance to v is v's recorded distance to u.
RecordedDistance(dic, u, v) == dic[u][1][CHOOSE y \in DOMAIN dic[u][2] : dic[u][2][y] = v]

C19_BothDirections ==
    (k < obj_count /\ pc \in {"write", "done"}) =>
        /\ \A x \in DOMAIN edgelist : HasEdge(edgelist, edgelist[x][2], edgelist[x][1])
        /\ \A x, y \in DOMAIN edgelist :
              (edgelist[x][1] = edgelist[y][1] /\ edgelist[x][2] = edgelist[y][2]) => x = y
        /\ \A x, y \in DOMAIN edgelist :
              (/\ edgelist[x][1] = edgelist[y][2]
               /\ edgelist[x][2] = edgelist[y][1]
               /\ RecordedDistance(dic_knn, edgelist[x][1], edgelist[x][2])
                     = RecordedDistance(dic_knn, edgelist[x][2], edgelist[x][1]))
                  => edgelist[x][3] = edgelist[y][3]

C19_Witness ==
    /\ pc = "done" /\ k < obj_count
    /\ DOMAIN dic_knn = Objects(obj_count)
    /\ \E x, y \in DOMAIN edgelist :
          /\ x < y
          /\ edgelist[x][1] = edgelist[y][2] /\ edgelist[x][2] = edgelist[y][1]
          /\ edgelist[x][3] = edgelist[y][3]
    /\ \E u, v \in Objects(obj_count) :
          u # v /\ v \in Ids(dic_knn[u]) /\ ~HasEdge(edgelist, u, v)

====
